---- MODULE Spec2Model ----
(***************************************************************************)
(* Model of scikit_learn_model_converter.py: the conversion of a fitted    *)
(* scikit-learn decision tree into a TF-DF model.                          *)
(*                                                                         *)
(* Python values are modelled as follows.  A flat sklearn node array is a  *)
(* sequence of records; Python index i is TLA+ index i + 1, and the child  *)
(* fields keep their Python values (0-based indices, -1 for "no child").   *)
(* Floating-point thresholds and feature values are integers; a quotient   *)
(* of two counts is an exact fraction in lowest terms.  A Python string    *)
(* that is a number's text is the sequence of its characters.              *)
(***************************************************************************)
EXTENDS Integers, Sequences, FiniteSets, TLC

\* ---------------------------------------------------------------- bounds

\* The largest number of decision nodes of an input tree (a tree with k
\* decision nodes has 2k + 1 nodes).
MaxSplits == 2

\* The number of columns of the design matrix (n_features_in_).
NumFeatures == 2

\* ------------------------------------------------------- input domains

\* sklearn's TREE_LEAF: the child index of a node that has no child.
TREE_LEAF == -1

\* sklearn's TREE_UNDEFINED: feature and threshold of a leaf.
TREE_UNDEFINED == -2

\* Column indices a split may test.
Features == 0..(NumFeatures - 1)

\* Split thresholds, and the feature values of the samples: each threshold
\* has a value below it, equal to it and above it.
Thresholds == {1, 2}

XValues == {1, 2, 3}

\* The design-matrix rows (Python column c is X[c + 1]).
Samples == [1..NumFeatures -> XValues]

LeafRow ==
  [left_child |-> TREE_LEAF, right_child |-> TREE_LEAF,
   feature |-> TREE_UNDEFINED, threshold |-> TREE_UNDEFINED]

SplitRow(l, r, f, t) ==
  [left_child |-> l, right_child |-> r, feature |-> f, threshold |-> t]

\* A node array moved d places to the right in a larger array.
Shift(rows, d) ==
  [i \in 1..Len(rows) |->
     IF rows[i].left_child = TREE_LEAF THEN rows[i]
     ELSE [rows[i] EXCEPT !.left_child = @ + d, !.right_child = @ + d]]

\* The well-formed node arrays with exactly k decision nodes, laid out as
\* sklearn's depth-first builder does: root at index 0, the left subtree
\* next, then the right subtree; a leaf has both children TREE_LEAF.
RECURSIVE NodeArrays(_)
NodeArrays(k) ==
  IF k = 0 THEN {<<LeafRow>>}
  ELSE UNION {
         { <<SplitRow(1, 1 + Len(l), f, t)>> \o Shift(l, 1) \o Shift(r, 1 + Len(l)) :
             f \in Features, t \in Thresholds,
             l \in NodeArrays(a), r \in NodeArrays(k - 1 - a) } :
         a \in 0..(k - 1) }

AllNodeArrays == UNION { NodeArrays(k) : k \in 0..MaxSplits }

\* The values array of a regression tree with n nodes: values[i][0][0] is
\* the mean of node i; the means are pairwise distinct.
RegressionValues(n) ==
  { [i \in 1..n |-> << <<50 - 3 * i>> >>] }

\* The values array of a single-output classification tree with n nodes:
\* values[i][0] is the vector of per-class counts of node i, never all zero;
\* with two classes, and with three classes one of which has no sample.
ClassificationValues(n) ==
  { [i \in 1..n |-> << <<i, i + 1>> >>],
    [i \in 1..n |-> << <<i, 0, 1>> >>] }

\* The values array of a two-output tree with n nodes.
MultiOutputValues(n) ==
  { [i \in 1..n |-> << <<i, 1>>, <<1, i>> >>] }

\* Method resolution orders of the estimator classes.
MroDecisionTreeRegressor ==
  <<"DecisionTreeRegressor", "BaseDecisionTree", "BaseEstimator", "object">>

MroExtraTreeRegressor == <<"ExtraTreeRegressor">> \o MroDecisionTreeRegressor

MroDecisionTreeClassifier ==
  <<"DecisionTreeClassifier", "BaseDecisionTree", "BaseEstimator", "object">>

MroExtraTreeClassifier == <<"ExtraTreeClassifier">> \o MroDecisionTreeClassifier

\* A class the caller derived from DecisionTreeRegressor.
MroUserRegressor == <<"UserRegressor">> \o MroDecisionTreeRegressor

MroLinearRegression == <<"LinearRegression", "BaseEstimator", "object">>

RegressorMros == {MroDecisionTreeRegressor, MroExtraTreeRegressor, MroUserRegressor}

ClassifierMros == {MroDecisionTreeClassifier, MroExtraTreeClassifier}

NoRows == << >>

\* An estimator object: its class (as its MRO), the names of the attributes
\* it has, and their values (a value is read only when its name is in attrs).
Estimator(mro, attrs, n_outputs, classes, rows, values) ==
  [mro |-> mro, attrs |-> attrs, n_outputs_ |-> n_outputs, classes_ |-> classes,
   n_features_in_ |-> NumFeatures, nodes |-> rows, values |-> values]

\* Estimators that were never fit: fit() sets every attribute read here.
UnfittedEstimators ==
  { Estimator(m, {}, 0, << >>, NoRows, << >>) :
      m \in RegressorMros \cup ClassifierMros \cup {MroLinearRegression} }

FittedLinearModels ==
  { Estimator(MroLinearRegression, {"coef_", "n_features_in_"}, 0, << >>, NoRows, << >>) }

RegressorAttrs == {"tree_", "n_outputs_", "n_features_in_"}

ClassifierAttrs == RegressorAttrs \cup {"n_classes_", "classes_"}

FittedRegressors ==
  UNION { { Estimator(m, RegressorAttrs, 1, << >>, rows, v) :
              m \in RegressorMros, v \in RegressionValues(Len(rows)) } :
          rows \in AllNodeArrays }

FittedClassifiers ==
  UNION { { Estimator(m, ClassifierAttrs, 1, [c \in 1..Len(v[1][1]) |-> c - 1], rows, v) :
              m \in ClassifierMros, v \in ClassificationValues(Len(rows)) } :
          rows \in AllNodeArrays }

FittedMultiOutput ==
  UNION { { Estimator(m, IF m \in ClassifierMros THEN ClassifierAttrs ELSE RegressorAttrs,
                      2, <<0, 1>>, rows, v) :
              m \in {MroDecisionTreeRegressor, MroDecisionTreeClassifier},
              v \in MultiOutputValues(Len(rows)) } :
          rows \in AllNodeArrays }

Estimators ==
  UnfittedEstimators \cup FittedLinearModels \cup FittedRegressors
    \cup FittedClassifiers \cup FittedMultiOutput

\* The caller's intermediate_write_path: None, or the path of a directory.
NoPath == "None"

Paths == {NoPath, "out"}

\* ------------------------------------------------------ Python values

\* Python's None, as a node and as a value.
None == [kind |-> "none"]

\* Truthiness of an object whose class defines neither __bool__ nor __len__:
\* only None is false.
Truthy(v) == v # None

NoError == [type |-> "None", msg |-> "", about |-> ""]

Exception(type, msg, about) == [type |-> type, msg |-> msg, about |-> about]

\* hasattr(o, name)
HasAttr(o, name) == name \in o.attrs

\* type(o): the first class of its MRO.
TypeOf(o) == o.mro[1]

DigitChars == <<"0", "1", "2", "3", "4", "5", "6", "7", "8", "9">>

\* str(n) of a non-negative integer: its decimal digits.
RECURSIVE StrNat(_)
StrNat(n) ==
  IF n < 10 THEN <<DigitChars[n + 1]>>
  ELSE StrNat(n \div 10) \o <<DigitChars[(n % 10) + 1]>>

\* str(n) of an integer.
Str(n) == IF n < 0 THEN <<"-">> \o StrNat(0 - n) ELSE StrNat(n)

DigitValue(c) == CHOOSE d \in 0..9 : DigitChars[d + 1] = c

IsDigit(c) == \E d \in 0..9 : DigitChars[d + 1] = c

RECURSIVE IntNat(_)
IntNat(s) ==
  IF Len(s) = 1 THEN DigitValue(s[1])
  ELSE 10 * IntNat(SubSeq(s, 1, Len(s) - 1)) + DigitValue(s[Len(s)])

\* Whether int(s) succeeds: an optional sign and at least one digit.
IntOk(s) ==
  LET body == IF Len(s) > 0 /\ s[1] = "-" THEN Tail(s) ELSE s
  IN  Len(body) > 0 /\ \A i \in 1..Len(body) : IsDigit(body[i])

\* int(s) of a string IntOk accepts (Int names the integers here).
ParseInt(s) == IF s[1] = "-" THEN 0 - IntNat(Tail(s)) ELSE IntNat(s)

RECURSIVE GCD(_, _)
GCD(a, b) == IF b = 0 THEN a ELSE GCD(b, a % b)

\* The quotient a / b of two counts, b > 0, as a fraction in lowest terms.
Quotient(a, b) == [num |-> a \div GCD(a, b), den |-> b \div GCD(a, b)]

\* numpy's v.sum() of a vector.
RECURSIVE Sum(_)
Sum(v) == IF Len(v) = 0 THEN 0 ELSE v[1] + Sum(Tail(v))

Min(a, b) == IF a <= b THEN a ELSE b

\* -------------------------------------------------- the tree translator

\* _get_sklearn_tree_task_type without the arity test on the classification
\* branch: "if hasattr(sklearn_tree, 'n_classes_'):".
GetTaskTypeNoArity(sklearn_tree) ==
  IF HasAttr(sklearn_tree, "n_classes_") THEN "SINGLE_LABEL_CLASSIFICATION"
  ELSE IF sklearn_tree.n_outputs_ = 1 THEN "SCALAR_REGRESSION"
  ELSE "UNKNOWN"

\* _get_sklearn_tree_task_type
GetTaskType(sklearn_tree) ==
  IF HasAttr(sklearn_tree, "n_classes_") /\ sklearn_tree.n_outputs_ = 1
    THEN "SINGLE_LABEL_CLASSIFICATION"
  ELSE IF sklearn_tree.n_outputs_ = 1 THEN "SCALAR_REGRESSION"
  ELSE "UNKNOWN"

RegressionValue(v) == [kind |-> "regression", value |-> v]

ProbabilityValue(p) == [kind |-> "probability", value |-> p]

\* numpy's v.max() of a vector of counts.
RECURSIVE Max(_)
Max(v) ==
  IF Len(v) = 1 THEN v[1]
  ELSE IF v[1] >= Max(Tail(v)) THEN v[1] ELSE Max(Tail(v))

\* The counts scaled by their largest entry in place of their sum.
ProbabilitiesByMax(counts) ==
  [c \in 1..Len(counts) |-> Quotient(counts[c], Max(counts))]

\* list(target_value[0] / target_value[0].sum())
Probabilities(counts) ==
  [c \in 1..Len(counts) |-> Quotient(counts[c], Sum(counts))]

\* The value attached to a node of a tree of a supported task type.
NodeValue(task_type, target_value) ==
  IF task_type = "SCALAR_REGRESSION" THEN RegressionValue(target_value[1][1])
  ELSE ProbabilityValue(Probabilities(target_value[1]))

\* The list "nodes" built by the loop over zip(nodes, values): one dict per
\* node, the node's fields plus its value.
NodesWithValues(rows, values, task_type) ==
  [i \in 1..Min(Len(rows), Len(values)) |->
     [left_child |-> rows[i].left_child, right_child |-> rows[i].right_child,
      feature |-> rows[i].feature, threshold |-> rows[i].threshold,
      value |-> NodeValue(task_type, values[i])]]

SimpleColumnSpec(name, col_idx) ==
  [name |-> name, type |-> "NUMERICAL", col_idx |-> col_idx]

NumericalHigherThanCondition(feature, threshold, missing_evaluation) ==
  [feature |-> feature, threshold |-> threshold,
   missing_evaluation |-> missing_evaluation]

NonLeafNode(condition, pos_child, neg_child) ==
  [kind |-> "nonleaf", condition |-> condition,
   pos_child |-> pos_child, neg_child |-> neg_child]

LeafNode(value) == [kind |-> "leaf", value |-> value]

\* _convert_sklearn_node_to_tfdf_node with the two recursive calls exchanged:
\* the negative child from right_child, the positive child from left_child.
RECURSIVE ConvertNodeSwapped(_, _)
ConvertNodeSwapped(node_index, nodes) ==
  IF node_index = TREE_LEAF THEN None
  ELSE LET node == nodes[node_index + 1]
           neg_child == ConvertNodeSwapped(node.right_child, nodes)
           pos_child == ConvertNodeSwapped(node.left_child, nodes)
       IN  IF Truthy(pos_child)
             THEN NonLeafNode(
                    NumericalHigherThanCondition(
                      SimpleColumnSpec(Str(node.feature), node.feature),
                      node.threshold, FALSE),
                    pos_child, neg_child)
             ELSE LeafNode(node.value)

\* _convert_sklearn_node_to_tfdf_node with the second recursive call a copy
\* of the first: both children are converted from left_child.
RECURSIVE ConvertNodeBothLeft(_, _)
ConvertNodeBothLeft(node_index, nodes) ==
  IF node_index = TREE_LEAF THEN None
  ELSE LET node == nodes[node_index + 1]
           neg_child == ConvertNodeBothLeft(node.left_child, nodes)
           pos_child == ConvertNodeBothLeft(node.left_child, nodes)
       IN  IF Truthy(pos_child)
             THEN NonLeafNode(
                    NumericalHigherThanCondition(
                      SimpleColumnSpec(Str(node.feature), node.feature),
                      node.threshold, FALSE),
                    pos_child, neg_child)
             ELSE LeafNode(node.value)

\* _convert_sklearn_node_to_tfdf_node with the leaf test "if node['right_child']:"
\* in place of "if pos_child:": the index -1 is truthy in Python, 0 is not.
RECURSIVE ConvertNodeTruthyIndex(_, _)
ConvertNodeTruthyIndex(node_index, nodes) ==
  IF node_index = TREE_LEAF THEN None
  ELSE LET node == nodes[node_index + 1]
           neg_child == ConvertNodeTruthyIndex(node.left_child, nodes)
           pos_child == ConvertNodeTruthyIndex(node.right_child, nodes)
       IN  IF node.right_child # 0
             THEN NonLeafNode(
                    NumericalHigherThanCondition(
                      SimpleColumnSpec(Str(node.feature), node.feature),
                      node.threshold, FALSE),
                    pos_child, neg_child)
             ELSE LeafNode(node.value)

\* _convert_sklearn_node_to_tfdf_node
RECURSIVE ConvertNode(_, _)
ConvertNode(node_index, nodes) ==
  IF node_index = TREE_LEAF THEN None
  ELSE LET node == nodes[node_index + 1]
           neg_child == ConvertNode(node.left_child, nodes)
           pos_child == ConvertNode(node.right_child, nodes)
       IN  IF Truthy(pos_child)
             THEN NonLeafNode(
                    NumericalHigherThanCondition(
                      SimpleColumnSpec(Str(node.feature), node.feature),
                      node.threshold, FALSE),
                    pos_child, neg_child)
             ELSE LeafNode(node.value)

Tree(root) == [root |-> root]

Returned(v) == [exc |-> NoError, value |-> v]

Raised(e) == [exc |-> e, value |-> None]

NotFittedError ==
  Exception("ValueError", "Scikit-Learn model must be fit to data before converting.", "")

UnsupportedTaskError ==
  Exception("ValueError",
            "Only scalar regression and single-label classification are supported.", "")

\* _convert_sklearn_tree_to_tfdf_pytree: what it returns or raises.
ConvertTree(sklearn_tree) ==
  IF ~HasAttr(sklearn_tree, "tree_") THEN Raised(NotFittedError)
  ELSE LET task_type == GetTaskType(sklearn_tree)
           n == Min(Len(sklearn_tree.nodes), Len(sklearn_tree.values))
       IN  IF n > 0 /\ task_type = "UNKNOWN" THEN Raised(UnsupportedTaskError)
           ELSE IF n = 0 THEN Raised(Exception("IndexError", "list index out of range", ""))
           ELSE Returned(Tree(ConvertNode(
                  0, NodesWithValues(sklearn_tree.nodes, sklearn_tree.values, task_type))))

\* ----------------------------------------- the TF-DF side (collaborators)

Absent == [state |-> "absent"]

EmptyDir == [state |-> "empty"]

\* A directory a builder has opened and not yet finalized.
PartialDir == [state |-> "partial"]

\* The names of the features the decision nodes under a node test.
RECURSIVE UsedFeatureNames(_)
UsedFeatureNames(node) ==
  IF node = None \/ node.kind = "leaf" THEN {}
  ELSE {node.condition.feature.name}
         \cup UsedFeatureNames(node.pos_child) \cup UsedFeatureNames(node.neg_child)

\* CARTBuilder(path, objective)
CARTBuilder(p, obj) == [path |-> p, objective |-> obj, trees |-> << >>]

\* What CARTBuilder.close() persists: a single-tree model.
SavedModel(builder) ==
  [state |-> "model", objective |-> builder.objective, trees |-> builder.trees]

\* tf.keras.models.load_model(path): the model read from the directory; its
\* serving signature names the features the tree tests.
LoadModel(dir) ==
  [objective |-> dir.objective, tree |-> dir.trees[1],
   signature |-> UsedFeatureNames(dir.trees[1].root)]

\* A feature value: missing, or a number.
Missing == [missing |-> TRUE]

Present(v) == [missing |-> FALSE, value |-> v]

\* NumericalHigherThanCondition evaluated on a feature value.
EvalCondition(condition, v) ==
  IF v = Missing THEN condition.missing_evaluation ELSE v.value > condition.threshold

\* The value of the leaf the model's tree reaches on inputs given by name.
RECURSIVE EvalNamed(_, _)
EvalNamed(node, inputs) ==
  IF node.kind = "leaf" THEN node.value
  ELSE IF EvalCondition(node.condition, Present(inputs[node.condition.feature.name]))
         THEN EvalNamed(node.pos_child, inputs)
         ELSE EvalNamed(node.neg_child, inputs)

\* tfdf_model(inputs)
CallModel(model, inputs) == EvalNamed(model.tree.root, inputs)

\* ------------------------------------------------------------- convert

VARIABLES
  sklearn_model,                 \* the estimator passed to convert
  intermediate_write_path,       \* the path passed to convert, or NoPath
  pc,                            \* the statement convert executes next
  intermediate_write_directory,  \* the context manager of the with statement
  path,                          \* the directory the model is written to
  dirs,                          \* the file system: the two directories
  impl,                          \* the overload _build_tfdf_model dispatched to
  objective,
  pytree,
  cart_builder,
  tfdf_model,
  result,                        \* the keras model convert returns
  error,                         \* the exception in flight, or NoError
  log                            \* the statements executed so far, in order

vars ==
  <<sklearn_model, intermediate_write_path, pc, intermediate_write_directory, path,
    dirs, impl, objective, pytree, cart_builder, tfdf_model, result, error, log>>

Init ==
  /\ sklearn_model \in Estimators
  /\ intermediate_write_path \in Paths
  /\ pc = "enter"
  /\ intermediate_write_directory = "unset"
  /\ path = NoPath
  /\ dirs = [tmp |-> Absent, out |-> EmptyDir]
  /\ impl = "unset"
  /\ objective = None
  /\ pytree = None
  /\ cart_builder = None
  /\ tfdf_model = None
  /\ result = None
  /\ error = NoError
  /\ log = << >>

\* "not intermediate_write_path"
Falsy(p) == p \in {NoPath, ""}

\* Lines 67-77: choose the directory and enter the with statement.
Enter ==
  /\ pc = "enter"
  /\ IF Falsy(intermediate_write_path)
       THEN /\ intermediate_write_directory' = "TemporaryDirectory"
            /\ path' = "tmp"
            /\ dirs' = [dirs EXCEPT !.tmp = EmptyDir]
       ELSE /\ intermediate_write_directory' = "nullcontext"
            /\ path' = intermediate_write_path
            /\ dirs' = dirs
  /\ pc' = "dispatch"
  /\ log' = Append(log, "enter")
  /\ UNCHANGED <<sklearn_model, intermediate_write_path, impl, objective, pytree,
                 cart_builder, tfdf_model, result, error>>

\* The classes _build_tfdf_model has an implementation registered for.
Registry ==
  [c \in {"DecisionTreeRegressor", "ExtraTreeRegressor", "DecisionTreeClassifier",
          "ExtraTreeClassifier", "object"} |->
     IF c \in {"DecisionTreeRegressor", "ExtraTreeRegressor"} THEN "regression"
     ELSE IF c \in {"DecisionTreeClassifier", "ExtraTreeClassifier"} THEN "classification"
     ELSE "base"]

\* Dispatch on the argument's own class alone: "type(sklearn_model) in registry".
DispatchImplExact(mro) ==
  IF mro[1] \in DOMAIN Registry THEN Registry[mro[1]] ELSE "base"

\* functools.singledispatch: the implementation registered for the first
\* class of the argument's MRO that has one.
DispatchImpl(mro) ==
  LET i == CHOOSE j \in 1..Len(mro) :
             /\ mro[j] \in DOMAIN Registry
             /\ \A k \in 1..(j - 1) : mro[k] \notin DOMAIN Registry
  IN  Registry[mro[i]]

\* The overload's statements with the builder created before the tree is
\* translated.
BodyBuilderFirst ==
  <<"objective", "cart_builder", "pytree", "add_tree", "close", "load_model">>

\* The statements of a registered overload of _build_tfdf_model, in order.
Body == <<"objective", "pytree", "cart_builder", "add_tree", "close", "load_model">>

\* The statement after s: the next one of the body, or the end of the with.
After(s) ==
  LET i == CHOOSE j \in 1..Len(Body) : Body[j] = s
  IN  IF i = Len(Body) THEN "exit_with" ELSE Body[i + 1]

\* The error of the unregistered case, which names the argument's type.
UnsupportedTypeError(type) ==
  Exception("NotImplementedError", "Can't build a TFDF model for", type)

\* Line 78 and lines 92-99: the call dispatches on the estimator's class.
Dispatch ==
  /\ pc = "dispatch"
  /\ impl' = DispatchImpl(sklearn_model.mro)
  /\ IF impl' = "base"
       THEN /\ error' = UnsupportedTypeError(TypeOf(sklearn_model))
            /\ pc' = "exit_with"
       ELSE /\ error' = error
            /\ pc' = Body[1]
  /\ log' = Append(log, "dispatch")
  /\ UNCHANGED <<sklearn_model, intermediate_write_path, intermediate_write_directory,
                 path, dirs, objective, pytree, cart_builder, tfdf_model, result>>

\* Line 108, lines 120-125: the objective.
Objective ==
  /\ pc = "objective"
  /\ IF impl = "regression"
       THEN /\ objective' = [task |-> "REGRESSION", label |-> "label", classes |-> << >>]
            /\ error' = error
            /\ pc' = After("objective")
       ELSE IF HasAttr(sklearn_model, "classes_")
         THEN /\ objective' =
                   [task |-> "CLASSIFICATION", label |-> "label",
                    classes |-> [c \in 1..Len(sklearn_model.classes_) |->
                                   Str(sklearn_model.classes_[c])]]
              /\ error' = error
              /\ pc' = After("objective")
         ELSE /\ objective' = objective
              /\ error' = Exception("AttributeError", "object has no attribute", "classes_")
              /\ pc' = "exit_with"
  /\ log' = Append(log, "objective")
  /\ UNCHANGED <<sklearn_model, intermediate_write_path, intermediate_write_directory,
                 path, dirs, impl, pytree, cart_builder, tfdf_model, result>>

\* Lines 109, 126: the tree is translated.
Translate ==
  /\ pc = "pytree"
  /\ LET r == ConvertTree(sklearn_model)
     IN  IF r.exc = NoError
           THEN pytree' = r.value /\ error' = error /\ pc' = After("pytree")
           ELSE pytree' = pytree /\ error' = r.exc /\ pc' = "exit_with"
  /\ log' = Append(log, "pytree")
  /\ UNCHANGED <<sklearn_model, intermediate_write_path, intermediate_write_directory,
                 path, dirs, impl, objective, cart_builder, tfdf_model, result>>

\* Lines 110, 127: the builder is created on the directory.
CreateBuilder ==
  /\ pc = "cart_builder"
  /\ cart_builder' = CARTBuilder(path, objective)
  /\ dirs' = [dirs EXCEPT ![path] = PartialDir]
  /\ pc' = After("cart_builder")
  /\ log' = Append(log, "cart_builder")
  /\ UNCHANGED <<sklearn_model, intermediate_write_path, intermediate_write_directory,
                 path, impl, objective, pytree, tfdf_model, result, error>>

\* Lines 111, 128: the tree is appended.
AddTree ==
  /\ pc = "add_tree"
  /\ cart_builder' = [cart_builder EXCEPT !.trees = Append(@, pytree)]
  /\ pc' = After("add_tree")
  /\ log' = Append(log, "add_tree")
  /\ UNCHANGED <<sklearn_model, intermediate_write_path, intermediate_write_directory,
                 path, dirs, impl, objective, pytree, tfdf_model, result, error>>

\* Lines 112, 129: the builder is finalized, which persists the model.
Close ==
  /\ pc = "close"
  /\ dirs' = [dirs EXCEPT ![cart_builder.path] = SavedModel(cart_builder)]
  /\ pc' = After("close")
  /\ log' = Append(log, "close")
  /\ UNCHANGED <<sklearn_model, intermediate_write_path, intermediate_write_directory,
                 path, impl, objective, pytree, cart_builder, tfdf_model, result, error>>

\* Lines 113, 130: the persisted model is loaded.
Load ==
  /\ pc = "load_model"
  /\ IF dirs[path].state = "model"
       THEN tfdf_model' = LoadModel(dirs[path]) /\ error' = error
       ELSE tfdf_model' = tfdf_model
            /\ error' = Exception("OSError", "SavedModel file does not exist", path)
  /\ pc' = "exit_with"
  /\ log' = Append(log, "load_model")
  /\ UNCHANGED <<sklearn_model, intermediate_write_path, intermediate_write_directory,
                 path, dirs, impl, objective, pytree, cart_builder, result>>

\* A call into the builder or the loader raises instead of returning.
CollaboratorFails ==
  /\ pc \in {"cart_builder", "close", "load_model"}
  /\ error' = Exception("CollaboratorError", "raised by", pc)
  /\ pc' = "exit_with"
  /\ log' = Append(log, "failed")
  /\ UNCHANGED <<sklearn_model, intermediate_write_path, intermediate_write_directory,
                 path, dirs, impl, objective, pytree, cart_builder, tfdf_model, result>>

\* The with statement left without the directory's removal (a directory made
\* by tempfile.mkdtemp() under a nullcontext).
ExitWithLeak ==
  /\ pc = "exit_with"
  /\ dirs' = dirs
  /\ pc' = IF error = NoError THEN "adapter" ELSE "raised"
  /\ log' = Append(log, "exit_with")
  /\ UNCHANGED <<sklearn_model, intermediate_write_path, intermediate_write_directory,
                 path, impl, objective, pytree, cart_builder, tfdf_model, result, error>>

\* Line 77: the with statement is left, by return or by exception;
\* TemporaryDirectory.__exit__ removes the directory, nullcontext does nothing.
ExitWith ==
  /\ pc = "exit_with"
  /\ IF intermediate_write_directory = "TemporaryDirectory"
       THEN dirs' = [dirs EXCEPT !.tmp = Absent]
       ELSE dirs' = dirs
  /\ pc' = IF error = NoError THEN "adapter" ELSE "raised"
  /\ log' = Append(log, "exit_with")
  /\ UNCHANGED <<sklearn_model, intermediate_write_path, intermediate_write_directory,
                 path, impl, objective, pytree, cart_builder, tfdf_model, result, error>>

\* The column of the dense input fed to the model's input named i.
FeedColumn(i) == ParseInt(i)

\* The wrapper feeding each input the column at its position among the
\* signature's keys: "for n, i in enumerate(feature_indices)".
WrapModelByPosition(model, n_features_in) ==
  [width |-> n_features_in,
   feeds |-> [i \in model.signature |->
                Cardinality({k \in model.signature : ParseInt(k) < ParseInt(i)})],
   model |-> model]

\* Lines 83-89: the model that takes the full design matrix.
WrapModel(model, n_features_in) ==
  [width |-> n_features_in,
   feeds |-> [i \in model.signature |-> FeedColumn(i)],
   model |-> model]

\* Whether template_input[:, c] is a column of an input n columns wide
\* (a negative index counts from the end).
ColumnInRange(c, n) == c >= 0 - n /\ c < n

\* Lines 83-89: int(i) raises on a key that is no integer, and the slice
\* raises on a column the input does not have.
Adapter ==
  /\ pc = "adapter"
  /\ IF \E i \in tfdf_model.signature : ~IntOk(i)
       THEN /\ result' = result
            /\ error' = Exception("ValueError", "invalid literal for int()", "")
            /\ pc' = "raised"
       ELSE LET w == WrapModel(tfdf_model, sklearn_model.n_features_in_)
            IN  IF \A i \in DOMAIN w.feeds : ColumnInRange(w.feeds[i], w.width)
                  THEN /\ result' = w
                       /\ error' = error
                       /\ pc' = "returned"
                  ELSE /\ result' = result
                       /\ error' = Exception("ValueError", "slice index out of bounds", "")
                       /\ pc' = "raised"
  /\ log' = Append(log, "adapter")
  /\ UNCHANGED <<sklearn_model, intermediate_write_path, intermediate_write_directory,
                 path, dirs, impl, objective, pytree, cart_builder, tfdf_model>>

\* Building the keras model around the loaded one raises.
AdapterFails ==
  /\ pc = "adapter"
  /\ error' = Exception("CollaboratorError", "raised by", "adapter")
  /\ pc' = "raised"
  /\ log' = Append(log, "failed")
  /\ UNCHANGED <<sklearn_model, intermediate_write_path, intermediate_write_directory,
                 path, dirs, impl, objective, pytree, cart_builder, tfdf_model, result>>

Next ==
  \/ Enter
  \/ Dispatch
  \/ Objective
  \/ Translate
  \/ CreateBuilder
  \/ AddTree
  \/ Close
  \/ Load
  \/ CollaboratorFails
  \/ ExitWith
  \/ Adapter
  \/ AdapterFails

Spec == Init /\ [][Next]_vars

\* x[c] of a row x of the design matrix.
Column(x, c) == x[(IF c < 0 THEN c + Len(x) ELSE c) + 1]

\* The output of the returned model on one row x of the design matrix.
CallWrapped(w, x) ==
  CallModel(w.model, [i \in DOMAIN w.feeds |-> Column(x, w.feeds[i])])

\* ------------------------------------------------------------- claims

\* The estimator's node array and values array.
Rows == sklearn_model.nodes

\* The state right after _convert_sklearn_tree_to_tfdf_pytree returned a tree.
TreeTranslated == pc = "cart_builder" /\ pytree # None

\* The list "nodes" the translator built for the estimator.
TranslatorNodes ==
  NodesWithValues(Rows, sklearn_model.values, GetTaskType(sklearn_model))

IsSplit(j) == Rows[j + 1].left_child # TREE_LEAF

\* sklearn's Tree.apply: the index of the leaf the source tree reaches on x,
\* going to left_child when x[feature] <= threshold and to right_child otherwise.
RECURSIVE SklearnApply(_, _, _)
SklearnApply(rows, j, x) ==
  IF rows[j + 1].left_child = TREE_LEAF THEN j
  ELSE IF x[rows[j + 1].feature + 1] <= rows[j + 1].threshold
         THEN SklearnApply(rows, rows[j + 1].left_child, x)
         ELSE SklearnApply(rows, rows[j + 1].right_child, x)

\* Whether v is what the source estimator predicts at leaf j: the stored mean
\* of a regression tree, the class counts over their sum (compared by cross
\* multiplication) of a classification tree.
IsSourcePrediction(v, j) ==
  LET target == sklearn_model.values[j + 1][1]
  IN  IF HasAttr(sklearn_model, "n_classes_")
        THEN /\ v.kind = "probability"
             /\ Len(v.value) = Len(target)
             /\ \A c \in 1..Len(target) :
                  v.value[c].num * Sum(target) = target[c] * v.value[c].den
        ELSE v = [kind |-> "regression", value |-> target[1]]

\* The node of a converted tree reached on x, going to the positive child
\* when x[col_idx] > threshold and to the negative child otherwise; None when
\* the walk runs into an absent child.
RECURSIVE ReachedNode(_, _)
ReachedNode(node, x) ==
  IF node = None \/ node.kind = "leaf" THEN node
  ELSE IF x[node.condition.feature.col_idx + 1] > node.condition.threshold
         THEN ReachedNode(node.pos_child, x)
         ELSE ReachedNode(node.neg_child, x)

\* C1: for every fitted single-output regression or classification tree and
\* every feature vector, the converted tree reaches a leaf, and its value is
\* the value of the leaf the source tree reaches on the same vector.
C1_SamePrediction ==
  TreeTranslated =>
    \A x \in Samples :
      LET reached == ReachedNode(pytree.root, x)
      IN  /\ reached # None
          /\ reached.kind = "leaf"
          /\ IsSourcePrediction(reached.value, SklearnApply(Rows, 0, x))

\* A tree with two decision nodes is translated, and two samples reach
\* leaves with different values.
C1_Witness ==
  /\ TreeTranslated
  /\ Len(Rows) = 5
  /\ \E x, y \in Samples :
       ReachedNode(pytree.root, x).value # ReachedNode(pytree.root, y).value

\* The sum of a vector of fractions, as a fraction (not reduced).
RECURSIVE SumFractions(_)
SumFractions(p) ==
  IF Len(p) = 0 THEN [num |-> 0, den |-> 1]
  ELSE LET rest == SumFractions(Tail(p))
       IN  [num |-> p[1].num * rest.den + rest.num * p[1].den,
            den |-> p[1].den * rest.den]

\* v is the probability vector of the count vector counts.
IsNormalized(v, counts) ==
  /\ v.kind = "probability"
  /\ Len(v.value) = Len(counts)
  /\ \A c \in 1..Len(counts) :
       /\ v.value[c].den > 0
       /\ v.value[c].num >= 0
       /\ v.value[c].num * Sum(counts) = counts[c] * v.value[c].den
  /\ SumFractions(v.value).num = SumFractions(v.value).den

\* The values of the leaves under a node of a converted tree.
RECURSIVE LeafValues(_)
LeafValues(node) ==
  IF node = None THEN {}
  ELSE IF node.kind = "leaf" THEN {node.value}
  ELSE LeafValues(node.pos_child) \cup LeafValues(node.neg_child)

\* C7: in a classification tree the value attached to every node, and so to
\* every leaf of the converted tree, is the node's count vector divided by its
\* sum: same length, entries non-negative, entries summing to 1.
C7_Probabilities ==
  (TreeTranslated /\ impl = "classification") =>
    /\ \A j \in 1..Len(Rows) :
         IsNormalized(TranslatorNodes[j].value, sklearn_model.values[j][1])
    /\ \A v \in LeafValues(pytree.root) :
         \E j \in 1..Len(Rows) :
           /\ Rows[j].left_child = TREE_LEAF
           /\ IsNormalized(v, sklearn_model.values[j][1])

\* A classification tree with three classes is translated, and a leaf has an
\* entry that is neither 0 nor 1.
C7_Witness ==
  /\ TreeTranslated
  /\ impl = "classification"
  /\ Len(Rows) = 5
  /\ \E v \in LeafValues(pytree.root) :
       /\ Len(v.value) = 3
       /\ \E c \in 1..3 : v.value[c].num > 0 /\ v.value[c].num < v.value[c].den

\* C8: every source node translated into a decision node has as negative
\* child the translation of its left_child and as positive child the
\* translation of its right_child; its condition is "feature > threshold" on
\* the node's own feature index and threshold, and a missing value evaluates
\* as not greater.
C8_BranchDirection ==
  TreeTranslated =>
    \A j \in 0..(Len(Rows) - 1) :
      LET t == ConvertNode(j, TranslatorNodes)
      IN  t.kind = "nonleaf" =>
            /\ t.neg_child = ConvertNode(Rows[j + 1].left_child, TranslatorNodes)
            /\ t.pos_child = ConvertNode(Rows[j + 1].right_child, TranslatorNodes)
            /\ t.condition.feature.col_idx = Rows[j + 1].feature
            /\ t.condition.threshold = Rows[j + 1].threshold
            /\ \A v \in XValues :
                 EvalCondition(t.condition, Present(v)) <=> (v > Rows[j + 1].threshold)
            /\ ~EvalCondition(t.condition, Missing)
            /\ (j = 0 => t = pytree.root)

\* The root is a decision node whose two children are different trees.
C8_Witness ==
  /\ TreeTranslated
  /\ pytree.root.kind = "nonleaf"
  /\ pytree.root.pos_child # pytree.root.neg_child
  /\ pytree.root.neg_child.kind = "nonleaf"

\* The source indices a converted tree covers, walking it beside the source
\* array (negative child beside left_child, positive beside right_child).
RECURSIVE Covered(_, _)
Covered(node, j) ==
  IF node = None \/ j = TREE_LEAF THEN {}
  ELSE {j} \cup
       IF node.kind = "leaf" THEN {}
       ELSE Covered(node.neg_child, Rows[j + 1].left_child)
              \cup Covered(node.pos_child, Rows[j + 1].right_child)

\* The source indices reachable from j through child indices other than -1.
RECURSIVE Reachable(_)
Reachable(j) ==
  IF j = TREE_LEAF THEN {}
  ELSE {j} \cup Reachable(Rows[j + 1].left_child) \cup Reachable(Rows[j + 1].right_child)

\* C9: a source node is emitted as a leaf iff its left_child is -1, every
\* emitted decision node has both children present, and every source node
\* reachable from the root is covered by the output.
C9_LeafIffNoChild ==
  TreeTranslated =>
    /\ \A j \in 0..(Len(Rows) - 1) :
         LET t == ConvertNode(j, TranslatorNodes)
         IN  /\ t.kind = "leaf" <=> ~IsSplit(j)
             /\ t.kind = "nonleaf" => t.pos_child # None /\ t.neg_child # None
    /\ Covered(pytree.root, 0) = Reachable(0)
    /\ pytree.root = ConvertNode(0, TranslatorNodes)

\* A five-node tree is translated: two decision nodes, three leaves.
C9_Witness ==
  /\ TreeTranslated
  /\ Cardinality(Reachable(0)) = 5
  /\ Cardinality({j \in Reachable(0) : IsSplit(j)}) = 2

\* convert has returned or raised.
Done == pc \in {"returned", "raised"}

Executed(s) == \E i \in 1..Len(log) : log[i] = s

Position(s) == CHOOSE i \in 1..Len(log) : log[i] = s

RegressionTypes == {"DecisionTreeRegressor", "ExtraTreeRegressor"}

ClassificationTypes == {"DecisionTreeClassifier", "ExtraTreeClassifier"}

SupportedTypes == RegressionTypes \cup ClassificationTypes

\* The estimator's class and the classes it inherits from.
Ancestors == {sklearn_model.mro[i] : i \in 1..Len(sklearn_model.mro)}

\* C2: convert on a never-fit estimator of any of the four supported types
\* fails with the NotFitted error.
C2_NotFittedFirst ==
  (Done /\ TypeOf(sklearn_model) \in SupportedTypes /\ ~HasAttr(sklearn_model, "tree_")) =>
    /\ pc = "raised"
    /\ error = NotFittedError

\* C3 as claimed: dispatch goes by the estimator's concrete type; a concrete
\* type other than the four fails with the unsupported-type error naming it.
C3_ExactTypeDispatch ==
  impl # "unset" =>
    /\ TypeOf(sklearn_model) \in RegressionTypes => impl = "regression"
    /\ TypeOf(sklearn_model) \in ClassificationTypes => impl = "classification"
    /\ TypeOf(sklearn_model) \notin SupportedTypes =>
         /\ impl = "base"
         /\ error = UnsupportedTypeError(TypeOf(sklearn_model))

\* C3 as amended: an estimator whose class is, or inherits from, a regression
\* tree type takes the regression path; one whose class is, or inherits from,
\* a classification tree type takes the classification path; an estimator
\* with none of the four among its classes fails with the unsupported-type
\* error naming its type, and no step of either path runs.
C3_MroDispatch ==
  impl # "unset" =>
    /\ (Ancestors \cap RegressionTypes # {} /\ Ancestors \cap ClassificationTypes = {}) =>
         impl = "regression" /\ error.type # "NotImplementedError"
    /\ (Ancestors \cap ClassificationTypes # {} /\ Ancestors \cap RegressionTypes = {}) =>
         impl = "classification" /\ error.type # "NotImplementedError"
    /\ Ancestors \cap SupportedTypes = {} =>
         /\ impl = "base"
         /\ error = UnsupportedTypeError(TypeOf(sklearn_model))
         /\ pc \in {"exit_with", "raised"}
         /\ objective = None /\ pytree = None /\ cart_builder = None /\ tfdf_model = None

\* convert has raised the unsupported-type error for a linear model.
C3_Witness ==
  /\ pc = "raised"
  /\ TypeOf(sklearn_model) = "LinearRegression"
  /\ error = UnsupportedTypeError("LinearRegression")

\* C4: one output and a class-count attribute gives classification (leaves
\* carry probabilities), one output and no class-count attribute gives
\* regression (leaves carry scalars), and any other arity is unknown: the
\* translation then raises UnsupportedTaskType, returns no tree, and no later
\* step runs.
C4_TaskType ==
  (HasAttr(sklearn_model, "tree_") /\ Executed("pytree")) =>
    IF sklearn_model.n_outputs_ = 1
      THEN /\ pytree # None
           /\ error # UnsupportedTaskError
           /\ \A v \in LeafValues(pytree.root) :
                v.kind = IF HasAttr(sklearn_model, "n_classes_")
                           THEN "probability" ELSE "regression"
      ELSE /\ error = UnsupportedTaskError
           /\ pytree = None
           /\ cart_builder = None
           /\ pc \in {"exit_with", "raised"}

\* convert has raised UnsupportedTaskType for a two-output classification tree.
C4_Witness ==
  /\ pc = "raised"
  /\ error = UnsupportedTaskError
  /\ sklearn_model.n_outputs_ = 2
  /\ HasAttr(sklearn_model, "n_classes_")
  /\ Len(Rows) = 3

InBuild(s) == s \in {"pytree", "cart_builder", "add_tree", "close", "load_model"}

\* C10: on the success path the steps run in the order translate, create
\* builder, append one tree, finalize, load; and when convert fails with
\* NotFitted, UnsupportedEstimatorType or UnsupportedTaskType no builder was
\* created and the caller's directory is as it was.
C10_AllOrNothing ==
  /\ pc = "returned" =>
       /\ SelectSeq(log, InBuild) =
            <<"pytree", "cart_builder", "add_tree", "close", "load_model">>
       /\ cart_builder.trees = <<pytree>>
       /\ tfdf_model.tree = pytree
  /\ error \in {NotFittedError, UnsupportedTaskError,
                UnsupportedTypeError(TypeOf(sklearn_model))} =>
       /\ cart_builder = None
       /\ ~Executed("cart_builder")
       /\ dirs.out = EmptyDir

\* convert has raised UnsupportedTaskType with a directory supplied, and the
\* directory is still empty.
C10_Witness ==
  /\ pc = "raised"
  /\ error = UnsupportedTaskError
  /\ intermediate_write_path = "out"
  /\ dirs.out = EmptyDir

\* The columns some split of the source tree tests.
UsedColumns == {Rows[j + 1].feature : j \in {k \in 0..(Len(Rows) - 1) : IsSplit(k)}}

\* C6: the returned model takes an input as wide as the estimator's feature
\* count, feeds the input named i the column int(i) (the column whose str is
\* i), and two inputs that agree on every column used by a split get the
\* same output.
C6_UnusedColumns ==
  pc = "returned" =>
    /\ result.width = sklearn_model.n_features_in_
    /\ DOMAIN result.feeds = tfdf_model.signature
    /\ \A i \in tfdf_model.signature :
         /\ result.feeds[i] \in 0..(result.width - 1)
         /\ Str(result.feeds[i]) = i
    /\ LET used == UsedColumns
           output == [x \in Samples |-> CallWrapped(result, x)]
       IN  \A x, y \in Samples :
             (\A c \in used : x[c + 1] = y[c + 1]) => output[x] = output[y]

\* convert has returned a model of a tree that tests the last column only,
\* and the model's output varies with that column.
C6_Witness ==
  /\ pc = "returned"
  /\ UsedColumns = {NumFeatures - 1}
  /\ \E x, y \in Samples : CallWrapped(result, x) # CallWrapped(result, y)

====
